---- MODULE Spec2Model ----
(***************************************************************************)
(* A model of getoptc++.hpp: the class __impl_GetOpt (flag registration,   *)
(* the STRICT and AS_IS parse loops, cluster expansion, options).          *)
(*                                                                         *)
(* A string (std::string, C string) is a sequence of one-character        *)
(* strings.  A character pointer is an index into `strings` (the character *)
(* arrays that exist),                                                     *)
(* 0 being a pointer that was read from outside an array.  A flag's        *)
(* storage cell (new TYPE_CPP(default_value)) is an index into the heap of *)
(* its type.                                                               *)
(***************************************************************************)
EXTENDS Integers, Sequences, FiniteSets, TLC

VARIABLES
  _argc,          \* integer_t _argc
  _argv,          \* character_t** _argv: [base |-> the array, elems |-> its char*]
  _from_sys,      \* bool _from_sys
  allocs,         \* std::vector<character_t*> allocs
  options,        \* std::vector<string_t> options
  main_lookup,    \* std::map<std::string, TYPE>
  bool_lookup,    \* std::map<std::string, bool*>
  float_lookup,   \* std::map<std::string, floating_t*>
  int_lookup,     \* std::map<std::string, integer_t*>
  str_lookup,     \* std::map<std::string, string_t*>
  bool_cells,     \* the bool cells made by flagBoolean
  float_cells,    \* the floating_t cells made by flagFloating
  int_cells,      \* the integer_t cells made by flagInt
  str_cells,      \* the string_t cells made by flagString
  strings,        \* the character arrays: the caller's tokens, then the parser's
  arrays,         \* the pointer arrays the parser made (newFlags): "live" | "freed"
  pc,             \* "idle" | "loop" (inside a readArgs while loop) | "ub"
  behaviour,      \* the BEHAVIOUR of the running readArgs
  i,              \* the loop variable of the running readArgs
  invalid_flags,  \* std::vector<string_t> invalid_flags of the running readArgs
  _argv_backup,   \* character_t** _argv_backup of the running readArgs
  ret,            \* what the last readArgs call returned or threw
  handles,        \* the pointers the flag...() calls returned, in call order
  caller_tokens,  \* the contents of the caller's tokens when initialize was called
  start_options,  \* options when the running (or last) readArgs was called
  start_cells,    \* the four cell heaps when the running (or last) readArgs was called
  got_options,    \* what the last getOptions() returned
  nreads          \* number of readArgs calls made so far

vars == <<_argc, _argv, _from_sys, allocs, options, main_lookup, bool_lookup,
          float_lookup, int_lookup, str_lookup, bool_cells, float_cells,
          int_cells, str_cells, strings, arrays, pc, behaviour, i, invalid_flags,
          _argv_backup, ret, handles, caller_tokens, start_options, start_cells,
          got_options, nreads>>

(***************************************************************************)
(* Bounds of the model.                                                    *)
(***************************************************************************)
MaxFlags == 2      \* flag...() calls made on one parser
MaxReads == 2      \* readArgs calls made on one parser, where calls accumulate
OnePass == 1       \* readArgs calls made on one parser, elsewhere
MaxSteps == 12     \* loop iterations RunToEnd follows
MaxArrays == 3     \* pointer arrays one parser makes

(***************************************************************************)
(* Characters and strings.                                                 *)
(***************************************************************************)
NUL == "NUL"       \* the terminator, what s[s.size()] reads

\* The value of a character as unsigned char (the order of std::map keys).
CharCode(c) ==
  CASE c = NUL -> 0
    [] c = "\"" -> 34 [] c = "'" -> 39 [] c = "+" -> 43 [] c = "," -> 44
    [] c = "-" -> 45 [] c = "." -> 46 [] c = "/" -> 47 [] c = "0" -> 48
    [] c = "1" -> 49 [] c = "5" -> 53 [] c = "=" -> 61 [] c = "a" -> 97
    [] c = "b" -> 98 [] c = "c" -> 99 [] c = "d" -> 100 [] c = "e" -> 101
    [] c = "f" -> 102 [] c = "g" -> 103 [] c = "i" -> 105 [] c = "l" -> 108
    [] c = "n" -> 110 [] c = "o" -> 111 [] c = "p" -> 112 [] c = "q" -> 113
    [] c = "r" -> 114 [] c = "s" -> 115 [] c = "t" -> 116 [] c = "u" -> 117
    [] c = "x" -> 120

\* std::string::npos is the largest size_t; -1 stands for it, so that
\* npos + 1 is 0 as it is modulo 2^64.
npos == -1

\* s.find(c): the 0-based index of the first c in s, or npos.
RECURSIVE FindFrom(_, _, _)
FindFrom(s, c, k) ==
  IF k >= Len(s) THEN npos
  ELSE IF s[k + 1] = c THEN k ELSE FindFrom(s, c, k + 1)

Find(s, c) == FindFrom(s, c, 0)

\* s.find_last_of(c): the 0-based index of the last c in s, or npos.
RECURSIVE FindLastFrom(_, _, _)
FindLastFrom(s, c, k) ==
  IF k < 0 THEN npos
  ELSE IF s[k + 1] = c THEN k ELSE FindLastFrom(s, c, k - 1)

FindLastOf(s, c) == FindLastFrom(s, c, Len(s) - 1)

\* s.substr(pos, n) for pos <= s.size(); a count that is npos or otherwise
\* wrapped below zero is larger than any string and takes the rest.
Substr(s, pos, n) ==
  LET last == IF n < 0 \/ pos + n > Len(s) THEN Len(s) ELSE pos + n
  IN  SubSeq(s, pos + 1, last)

\* s[k] for k <= s.size().
CharAt(s, k) == IF k < Len(s) THEN s[k + 1] ELSE NUL

\* flag.find("--") == 0
StartsWithDashDash(s) == Len(s) >= 2 /\ s[1] = "-" /\ s[2] = "-"

\* __internal::stripQuotes
stripQuotes(s) ==
  IF \/ (Find(s, "\"") = 0 /\ FindLastOf(s, "\"") = Len(s) - 1)
     \/ (Find(s, "'") = 0 /\ FindLastOf(s, "'") = Len(s) - 1)
  THEN Substr(s, 1, Len(s) - 2)
  ELSE s

\* operator< of std::string: lexicographic by character value.
RECURSIVE StrLess(_, _)
StrLess(s, t) ==
  IF t = <<>> THEN FALSE
  ELSE IF s = <<>> THEN TRUE
  ELSE IF CharCode(Head(s)) # CharCode(Head(t))
       THEN CharCode(Head(s)) < CharCode(Head(t))
       ELSE StrLess(Tail(s), Tail(t))

Digit(c) == CASE c = "0" -> 0 [] c = "1" -> 1 [] c = "5" -> 5 [] OTHER -> -1

\* The value of the leading digits of s (acc so far), as strtol reads them.
RECURSIVE DigitsValue(_, _)
DigitsValue(s, acc) ==
  IF s = <<>> \/ Digit(Head(s)) < 0 THEN acc
  ELSE DigitsValue(Tail(s), 10 * acc + Digit(Head(s)))

\* std::stoi (and std::stod on the texts of this model, which hold no '.',
\* exponent, "inf" or "nan"): an optional sign, then at least one digit;
\* what follows the digits is ignored; no digit throws std::invalid_argument.
Convert(s) ==
  LET signed == s # <<>> /\ Head(s) \in {"-", "+"}
      body   == IF signed THEN Tail(s) ELSE s
  IN  IF body = <<>> \/ Digit(Head(body)) < 0
      THEN [ok |-> FALSE, val |-> 0]
      ELSE [ok |-> TRUE,
            val |-> IF signed /\ Head(s) = "-" THEN 0 - DigitsValue(body, 0)
                    ELSE DigitsValue(body, 0)]

stoi(s) == Convert(s)
stod(s) == Convert(s)

(***************************************************************************)
(* The lookup tables: a std::map is a function on its keys.                *)
(***************************************************************************)
EmptyMap == <<>>

\* (mutant) operator[] in place of insert: an existing key takes the new value.
MapInsertOverwrites(m, k, v) ==
  [x \in DOMAIN m \cup {k} |-> IF x = k THEN v ELSE m[x]]

\* std::map::insert: an existing key keeps its value.
MapInsert(m, k, v) == IF k \in DOMAIN m THEN m ELSE m @@ (k :> v)

\* (mutant) rbegin() in place of begin(): the greatest key.
BeginKeyIsLast(m) == CHOOSE k \in DOMAIN m : \A o \in DOMAIN m : o = k \/ StrLess(o, k)

\* main_lookup.begin()->first: the least key.
BeginKey(m) == CHOOSE k \in DOMAIN m : \A o \in DOMAIN m : o = k \/ StrLess(k, o)

\* The strings std::getline(ss, flag, ',') yields from flagName, the one
\* that reaches end of input (inserted after the loop) included.
RECURSIVE GetLines(_, _)
GetLines(s, cur) ==
  IF s = <<>> THEN <<cur>>
  ELSE IF Head(s) = "," THEN <<cur>> \o GetLines(Tail(s), <<>>)
  ELSE GetLines(Tail(s), Append(cur, Head(s)))

\* (mutant) SETUP_FLAG without the two inserts after its loop: the string
\* that reached end of input is not inserted.
RECURSIVE InsertAllButLast(_, _, _)
InsertAllButLast(m, keys, v) ==
  IF Len(keys) <= 1 THEN m
  ELSE InsertAllButLast(MapInsert(m, Head(keys), v), Tail(keys), v)

\* The inserts of SETUP_FLAG into one table, in order.
RECURSIVE InsertAll(_, _, _)
InsertAll(m, keys, v) ==
  IF keys = <<>> THEN m
  ELSE InsertAll(MapInsert(m, Head(keys), v), Tail(keys), v)


(***************************************************************************)
(* The state a readArgs call works on, as a record, so that one loop       *)
(* iteration is a function from a record to the set of records it can      *)
(* lead to (more than one only where the code's behaviour is undefined).   *)
(***************************************************************************)
Self ==
  [_argc |-> _argc, _argv |-> _argv, allocs |-> allocs, options |-> options,
   bool_cells |-> bool_cells, float_cells |-> float_cells,
   int_cells |-> int_cells, str_cells |-> str_cells, strings |-> strings,
   arrays |-> arrays, pc |-> pc, i |-> i, invalid_flags |-> invalid_flags,
   _argv_backup |-> _argv_backup, ret |-> ret]

NullArgv == [base |-> 0, elems |-> <<>>]    \* character_t **_argv = nullptr
NoReturn == [kind |-> "none", value |-> <<>>]

FREED == <<"FREED">>       \* a character array after delete[]
UBText == <<"UB">>         \* reading a string through an invalid pointer faults
\* What a string read through an invalid pointer can hold when it does not fault.
Garbage == {<<>>, <<"-", "a">>}

\* The program faulted: undefined behaviour with no further step.
Crash(P) == [P EXCEPT !.pc = "ub"]

\* _argv[k]: the pointer at index k; 0 when k is outside the array.
PtrAt(P, k) ==
  IF k >= 0 /\ k < Len(P._argv.elems) THEN P._argv.elems[k + 1] ELSE 0

\* A pointer to a character array that exists.
ValidPtr(P, p) == p # 0 /\ P.strings[p] # FREED

\* string_t(_argv[k]): the texts the read can give.
ArgAt(P, k) ==
  LET p == PtrAt(P, k)
  IN  IF ValidPtr(P, p) THEN {P.strings[p]} ELSE Garbage \cup {UBText}

\* flag.substr(0, flag.find('='))
FlagOnly(flag) == Substr(flag, 0, Find(flag, "="))

\* string_t(flag, 0, 2)
Prefix2(flag) == Substr(flag, 0, 2)

\* invalid_flags.push_back(flag); i++
PushInvalid(P, flag) ==
  [P EXCEPT !.invalid_flags = Append(P.invalid_flags, flag), !.i = P.i + 1]

\* options.push_back(flag); i++
PushOption(P, flag) ==
  [P EXCEPT !.options = Append(P.options, flag), !.i = P.i + 1]

\* The marker character the expansion writes before a flag character.
ExpandMarker(flag) == "-"

\* The combination-flag branch: the tokens for the interior characters are
\* appended in a new array, the token at i is overwritten in place.
Expand(P, flag) ==
  LET lastFlag == flag[Len(flag)]
      s        == Substr(flag, 1, Len(flag) - 2)
      n        == Len(P.strings)
      copied   == [k \in 1..P._argc |-> PtrAt(P, k - 1)]
      fresh    == [k \in 1..Len(s) |-> n + k]
      grown    == P.strings \o [k \in 1..Len(s) |-> <<ExpandMarker(flag), s[k]>>]
      newFlags == [base |-> Len(P.arrays) + 2, elems |-> copied \o fresh]
      target   == newFlags.elems[P.i + 1]
  IN  IF ~ValidPtr(P, target) \/ Len(P.strings[target]) < 2
      THEN {Crash(P)}     \* strcpy through a bad pointer or past the array
      ELSE {[P EXCEPT
               !.strings = [grown EXCEPT ![target] = <<ExpandMarker(flag), lastFlag>>],
               !.arrays = Append(P.arrays, "live"),
               !.allocs = P.allocs \o fresh,
               !._argc = P._argc + Len(s),
               !._argv = newFlags]}

\* The branch for a flag_only that is not in main_lookup.  With an empty
\* main_lookup, begin() is end() and reading through it is undefined: the
\* character read may or may not equal flag[0], or the read faults.
NotFound(P, flag) ==
  IF DOMAIN main_lookup = {}
  THEN {Crash(P), PushInvalid(P, flag), PushOption(P, flag)}
  ELSE IF CharAt(BeginKey(main_lookup), 0) = CharAt(flag, 0)
       THEN IF Prefix2(flag) \notin DOMAIN main_lookup
            THEN {PushInvalid(P, flag)}
            ELSE Expand(P, flag)
       ELSE {PushOption(P, flag)}

\* The index of the token a short-form boolean flag compares with "0" and
\* "1": _argv[index + 1] with index still 0 (STRICT), or npos (AS_IS).
BoolValueIndex(beh) == IF beh = "STRICT" THEN 0 + 1 ELSE npos + 1

\* The condition and the two branches of the short-form boolean flag:
\* stripQuotes(next) == "0" || (*data = (stripQuotes(next) == "1") ? true : *data)
ShortBool(P, data, next) ==
  IF next = UBText THEN Crash(P)
  ELSE IF stripQuotes(next) = <<"0">>
       THEN [P EXCEPT !.i = P.i + 2]
       ELSE LET v == IF stripQuotes(next) = <<"1">> THEN TRUE ELSE P.bool_cells[data]
            IN  IF v THEN [P EXCEPT !.bool_cells[data] = v, !.i = P.i + 2]
                ELSE [P EXCEPT !.bool_cells[data] = TRUE, !.i = P.i + 1]

\* (mutant) the suffix is compared with "0" as it stands, quotes included.
EqualsBoolNoStrip(P, data, flag, index) ==
  [P EXCEPT !.bool_cells[data] = (Substr(flag, index + 1, npos) # <<"0">>),
            !.i = P.i + 1]

\* *data = (stripQuotes(string_t(flag, index + 1)) == "0") ? false : true; i++
EqualsBool(P, data, flag, index) ==
  [P EXCEPT !.bool_cells[data] = (stripQuotes(Substr(flag, index + 1, npos)) # <<"0">>),
            !.i = P.i + 1]

\* case BOOL of __internal_readArgs_STRICT
BoolSTRICT(P, flag) ==
  LET data  == bool_lookup[FlagOnly(flag)]
      index == Find(flag, "=")
  IN  IF StartsWithDashDash(flag)
      THEN IF index = npos
           THEN {[P EXCEPT !.bool_cells[data] = TRUE, !.i = P.i + 1]}
           ELSE {EqualsBool(P, data, flag, index)}
      ELSE {ShortBool(P, data, next) : next \in ArgAt(P, BoolValueIndex("STRICT"))}

\* case BOOL of __internal_readArgs_AS_IS
BoolAS_IS(P, flag) ==
  LET data  == bool_lookup[FlagOnly(flag)]
      index == Find(flag, "=")
  IN  IF index = npos
      THEN {ShortBool(P, data, next) : next \in ArgAt(P, BoolValueIndex("AS_IS"))}
      ELSE {EqualsBool(P, data, flag, index)}

\* TYPE##_lookup.at(flag_only)
CellOf(type, flag_only) ==
  CASE type = "FLOAT" -> float_lookup[flag_only]
    [] type = "INT"   -> int_lookup[flag_only]
    [] type = "STR"   -> str_lookup[flag_only]

\* (mutant) a conversion that fails stores 0 and the parse goes on.
StoreZeroOnFailure(P, type, data, text, adv) ==
  LET c == CASE type = "FLOAT" -> stod(text)
             [] type = "INT"   -> stoi(text)
             [] type = "STR"   -> [ok |-> TRUE, val |-> text]
  IN  CASE type = "FLOAT" -> [P EXCEPT !.float_cells[data] = c.val, !.i = P.i + adv]
        [] type = "INT"   -> [P EXCEPT !.int_cells[data] = c.val, !.i = P.i + adv]
        [] type = "STR"   -> [P EXCEPT !.str_cells[data] = c.val, !.i = P.i + adv]

\* *data = CONVERSION_FUNCTION(text) (no conversion for a string flag), then
\* i += adv; a conversion that throws leaves readArgs at once.
Store(P, type, data, text, adv) ==
  LET c == CASE type = "FLOAT" -> stod(text)
             [] type = "INT"   -> stoi(text)
             [] type = "STR"   -> [ok |-> TRUE, val |-> text]
  IN  IF ~c.ok
      THEN [P EXCEPT !.pc = "idle", !.ret = [kind |-> "threw", value |-> <<>>]]
      ELSE CASE type = "FLOAT" -> [P EXCEPT !.float_cells[data] = c.val, !.i = P.i + adv]
             [] type = "INT"   -> [P EXCEPT !.int_cells[data] = c.val, !.i = P.i + adv]
             [] type = "STR"   -> [P EXCEPT !.str_cells[data] = c.val, !.i = P.i + adv]

\* (mutant) the next token is read without the test i + 1 >= _argc.
NextTokenValueUnchecked(P, flag, type, data) ==
  {IF next = UBText THEN Crash(P)
   ELSE Store(P, type, data, stripQuotes(next), 2) : next \in ArgAt(P, P.i + 1)}

\* The value is the next token: invalid when there is none.
NextTokenValue(P, flag, type, data) ==
  IF P.i + 1 >= P._argc
  THEN {PushInvalid(P, flag)}
  ELSE {IF next = UBText THEN Crash(P)
        ELSE Store(P, type, data, stripQuotes(next), 2) : next \in ArgAt(P, P.i + 1)}

\* HANDLE_NUMERIC_FLAGS and case STR of __internal_readArgs_STRICT
HANDLE_NUMERIC_FLAGS(P, flag, type) ==
  LET data  == CellOf(type, FlagOnly(flag))
      index == Find(flag, "=")
  IN  IF StartsWithDashDash(flag)
      THEN IF index # npos
           THEN {Store(P, type, data, stripQuotes(Substr(flag, index + 1, npos)), 1)}
           ELSE {PushInvalid(P, flag)}
      ELSE NextTokenValue(P, flag, type, data)

\* HANDLE_NUMERIC_FLAGS_AS_IS and case STR of __internal_readArgs_AS_IS
HANDLE_NUMERIC_FLAGS_AS_IS(P, flag, type) ==
  LET data  == CellOf(type, FlagOnly(flag))
      index == Find(flag, "=")
  IN  IF index # npos
      THEN {Store(P, type, data, stripQuotes(Substr(flag, index + 1, npos)), 1)}
      ELSE NextTokenValue(P, flag, type, data)

\* One iteration of the while loop on the token `flag` read from _argv[i].
Iterate(P, beh, flag) ==
  IF flag = UBText THEN {Crash(P)}
  ELSE IF FlagOnly(flag) \notin DOMAIN main_lookup THEN NotFound(P, flag)
  ELSE LET type == main_lookup[FlagOnly(flag)]
       IN  IF type = "BOOL"
           THEN IF beh = "STRICT" THEN BoolSTRICT(P, flag) ELSE BoolAS_IS(P, flag)
           ELSE IF beh = "STRICT" THEN HANDLE_NUMERIC_FLAGS(P, flag, type)
                ELSE HANDLE_NUMERIC_FLAGS_AS_IS(P, flag, type)

\* One iteration of the while loop: every record it can lead to.
LoopBody(P, beh) == UNION {Iterate(P, beh, flag) : flag \in ArgAt(P, P.i)}

\* After the loop: delete[] every pointer of allocs, delete[] the array if
\* it was replaced and restore _argv, clear allocs, return invalid_flags.
Cleanup(P) ==
  LET freed == {P.allocs[k] : k \in 1..Len(P.allocs)}
  IN  [P EXCEPT
         !.strings = [k \in 1..Len(P.strings) |->
                        IF k \in freed THEN FREED ELSE P.strings[k]],
         !.arrays = IF P._argv.base # P._argv_backup.base
                    THEN [@ EXCEPT ![P._argv.base - 1] = "freed"] ELSE @,
         !._argv = IF P._argv.base # P._argv_backup.base THEN P._argv_backup ELSE @,
         !.allocs = <<>>,
         !.pc = "idle",
         !.ret = [kind |-> "returned", value |-> P.invalid_flags]]

\* (mutant) a readArgs call that starts from empty options.
EnterClearsOptions(P, from_sys) ==
  [P EXCEPT !.pc = "loop", !._argv_backup = P._argv, !.invalid_flags = <<>>,
            !.i = IF from_sys THEN 1 ELSE 0, !.options = <<>>]

\* The locals of __internal_readArgs_STRICT / _AS_IS before the loop.
Enter(P, from_sys) ==
  [P EXCEPT !.pc = "loop", !._argv_backup = P._argv, !.invalid_flags = <<>>,
            !.i = IF from_sys THEN 1 ELSE 0]

\* One step of a running readArgs: an iteration, or the code after the loop.
StepOf(P, beh) == IF P.i < P._argc THEN LoopBody(P, beh) ELSE {Cleanup(P)}

\* The records a running readArgs can end in (returned, threw or faulted),
\* following at most `fuel` steps.
RECURSIVE RunToEnd(_, _, _)
RunToEnd(P, beh, fuel) ==
  IF P.pc # "loop" \/ fuel = 0 THEN {P}
  ELSE UNION {RunToEnd(Q, beh, fuel - 1) : Q \in StepOf(P, beh)}


(***************************************************************************)
(* The operations of the class.                                            *)
(***************************************************************************)
Init ==
  /\ _argc = 0
  /\ _argv = NullArgv
  /\ _from_sys = TRUE
  /\ allocs = <<>>
  /\ options = <<>>
  /\ main_lookup = EmptyMap
  /\ bool_lookup = EmptyMap
  /\ float_lookup = EmptyMap
  /\ int_lookup = EmptyMap
  /\ str_lookup = EmptyMap
  /\ bool_cells = <<>>
  /\ float_cells = <<>>
  /\ int_cells = <<>>
  /\ str_cells = <<>>
  /\ strings = <<>>
  /\ arrays = <<>>
  /\ pc = "idle"
  /\ behaviour = "STRICT"
  /\ i = 0
  /\ invalid_flags = <<>>
  /\ _argv_backup = NullArgv
  /\ ret = NoReturn
  /\ handles = <<>>
  /\ caller_tokens = <<>>
  /\ start_options = <<>>
  /\ start_cells = <<<<>>, <<>>, <<>>, <<>>>>
  /\ got_options = [value |-> <<>>, reads |-> -1]
  /\ nreads = 0

\* The variables a readArgs call works on take the values of the record.
Install(P) ==
  /\ _argc' = P._argc
  /\ _argv' = P._argv
  /\ allocs' = P.allocs
  /\ options' = P.options
  /\ bool_cells' = P.bool_cells
  /\ float_cells' = P.float_cells
  /\ int_cells' = P.int_cells
  /\ str_cells' = P.str_cells
  /\ strings' = P.strings
  /\ arrays' = P.arrays
  /\ pc' = P.pc
  /\ i' = P.i
  /\ invalid_flags' = P.invalid_flags
  /\ _argv_backup' = P._argv_backup
  /\ ret' = P.ret

\* initialize(argc, argv, isFromSystem), with argv a fresh array of the
\* tokens `tokens` and argc their number; called once on a parser.
initialize(tokens, isFromSystem) ==
  /\ pc = "idle" /\ _argv = NullArgv /\ nreads = 0
  /\ _argc' = Len(tokens)
  /\ _argv' = [base |-> 1, elems |-> [k \in 1..Len(tokens) |-> k]]
  /\ _from_sys' = isFromSystem
  /\ strings' = tokens
  /\ caller_tokens' = tokens
  /\ UNCHANGED <<allocs, options, main_lookup, bool_lookup, float_lookup,
                 int_lookup, str_lookup, bool_cells, float_cells, int_cells,
                 str_cells, arrays, pc, behaviour, i, invalid_flags, _argv_backup,
                 ret, handles, start_options, start_cells, got_options, nreads>>

\* What every flag...() call does besides SETUP_FLAG's own table and cell;
\* the calls are made before the first readArgs.
FlagCallFrame(type, cell, flagName, default_value) ==
  /\ pc = "idle" /\ nreads = 0 /\ Len(handles) < MaxFlags
  /\ handles' = Append(handles, [type |-> type, cell |-> cell,
                                 flags |-> GetLines(flagName, <<>>),
                                 default_value |-> default_value])
  /\ UNCHANGED <<_argc, _argv, _from_sys, allocs, options, strings, arrays, pc,
                 behaviour, i, invalid_flags, _argv_backup, ret, caller_tokens,
                 start_options, start_cells, got_options, nreads>>

flagBoolean(flagName, default_value) ==
  LET returnVal == Len(bool_cells) + 1
  IN  /\ FlagCallFrame("BOOL", returnVal, flagName, default_value)
      /\ bool_cells' = Append(bool_cells, default_value)
      /\ main_lookup' = InsertAll(main_lookup, GetLines(flagName, <<>>), "BOOL")
      /\ bool_lookup' = InsertAll(bool_lookup, GetLines(flagName, <<>>), returnVal)
      /\ UNCHANGED <<float_lookup, int_lookup, str_lookup, float_cells,
                     int_cells, str_cells>>

flagFloating(flagName, default_value) ==
  LET returnVal == Len(float_cells) + 1
  IN  /\ FlagCallFrame("FLOAT", returnVal, flagName, default_value)
      /\ float_cells' = Append(float_cells, default_value)
      /\ main_lookup' = InsertAll(main_lookup, GetLines(flagName, <<>>), "FLOAT")
      /\ float_lookup' = InsertAll(float_lookup, GetLines(flagName, <<>>), returnVal)
      /\ UNCHANGED <<bool_lookup, int_lookup, str_lookup, bool_cells,
                     int_cells, str_cells>>

flagInt(flagName, default_value) ==
  LET returnVal == Len(int_cells) + 1
  IN  /\ FlagCallFrame("INT", returnVal, flagName, default_value)
      /\ int_cells' = Append(int_cells, default_value)
      /\ main_lookup' = InsertAll(main_lookup, GetLines(flagName, <<>>), "INT")
      /\ int_lookup' = InsertAll(int_lookup, GetLines(flagName, <<>>), returnVal)
      /\ UNCHANGED <<bool_lookup, float_lookup, str_lookup, bool_cells,
                     float_cells, str_cells>>

flagString(flagName, default_value) ==
  LET returnVal == Len(str_cells) + 1
  IN  /\ FlagCallFrame("STR", returnVal, flagName, default_value)
      /\ str_cells' = Append(str_cells, default_value)
      /\ main_lookup' = InsertAll(main_lookup, GetLines(flagName, <<>>), "STR")
      /\ str_lookup' = InsertAll(str_lookup, GetLines(flagName, <<>>), returnVal)
      /\ UNCHANGED <<bool_lookup, float_lookup, int_lookup, bool_cells,
                     float_cells, int_cells>>

Registry == <<main_lookup, bool_lookup, float_lookup, int_lookup, str_lookup>>
Cells == <<bool_cells, float_cells, int_cells, str_cells>>

\* No getOptions() result since the last readArgs call.
NotGot == [value |-> <<>>, reads |-> -1]

\* readArgs(behaviour) up to the loop: no_argv without an argv, else the
\* locals of the chosen implementation.
readArgs(beh, reads) ==
  /\ pc = "idle" /\ nreads < reads
  /\ nreads' = nreads + 1
  /\ behaviour' = beh
  /\ start_options' = options
  /\ start_cells' = Cells
  /\ IF _argv = NullArgv
     THEN /\ ret' = [kind |-> "no_argv", value |-> <<>>]
          /\ UNCHANGED <<_argc, _argv, allocs, options, bool_cells, float_cells,
                         int_cells, str_cells, strings, arrays, pc, i,
                         invalid_flags, _argv_backup>>
     ELSE Install(Enter(Self, _from_sys))
  /\ got_options' = NotGot
  /\ UNCHANGED <<_from_sys, main_lookup, bool_lookup, float_lookup, int_lookup,
                 str_lookup, handles, caller_tokens>>

ReadFrame ==
  UNCHANGED <<_from_sys, main_lookup, bool_lookup, float_lookup, int_lookup,
              str_lookup, behaviour, handles, caller_tokens, start_options,
              start_cells, got_options, nreads>>

\* One iteration of the while loop of __internal_readArgs_STRICT.
STRICT_iteration ==
  /\ pc = "loop" /\ behaviour = "STRICT" /\ i < _argc
  /\ \E Q \in LoopBody(Self, "STRICT") : Len(Q.arrays) <= MaxArrays /\ Install(Q)
  /\ ReadFrame

\* One iteration of the while loop of __internal_readArgs_AS_IS.
AS_IS_iteration ==
  /\ pc = "loop" /\ behaviour = "AS_IS" /\ i < _argc
  /\ \E Q \in LoopBody(Self, "AS_IS") : Len(Q.arrays) <= MaxArrays /\ Install(Q)
  /\ ReadFrame

\* The code after the loop, the same in both implementations.
readArgs_return ==
  /\ pc = "loop" /\ i >= _argc
  /\ Install(Cleanup(Self))
  /\ ReadFrame

getOptions ==
  /\ pc = "idle"
  /\ got_options' = [value |-> options, reads |-> nreads]
  /\ UNCHANGED <<_argc, _argv, _from_sys, allocs, options, main_lookup,
                 bool_lookup, float_lookup, int_lookup, str_lookup, bool_cells,
                 float_cells, int_cells, str_cells, strings, arrays, pc,
                 behaviour, i, invalid_flags, _argv_backup, ret, handles,
                 caller_tokens, start_options, start_cells, nreads>>

(***************************************************************************)
(* The caller: the flag...() calls and the argument vectors it may use.    *)
(***************************************************************************)
FlagCall(type, flagName, default_value) ==
  [type |-> type, flagName |-> flagName, default_value |-> default_value]

\* One of flagBoolean, flagFloating, flagInt, flagString.
flagCall(c) ==
  CASE c.type = "BOOL"  -> flagBoolean(c.flagName, c.default_value)
    [] c.type = "FLOAT" -> flagFloating(c.flagName, c.default_value)
    [] c.type = "INT"   -> flagInt(c.flagName, c.default_value)
    [] c.type = "STR"   -> flagString(c.flagName, c.default_value)

\* argv[0] of a vector that comes from the system.
Prog == <<"p", "r", "o", "g">>

\* A caller that draws its flag...() calls from `calls` and the arguments
\* of its vector from `vectors`, and calls readArgs at most `reads` times; a
\* vector from the system starts with the executable path.
NextOn(calls, vectors, reads) ==
  \/ \E c \in calls : flagCall(c)
  \/ \E v \in vectors, isFromSystem \in BOOLEAN :
       initialize(IF isFromSystem THEN <<Prog>> \o v ELSE v, isFromSystem)
  \/ \E beh \in {"STRICT", "AS_IS"} : readArgs(beh, reads)
  \/ STRICT_iteration
  \/ AS_IS_iteration
  \/ readArgs_return
  \/ getOptions

\* All sequences over S of length at most n.
RECURSIVE SeqsUpTo(_, _)
SeqsUpTo(S, n) ==
  IF n = 0 THEN {<<>>}
  ELSE LET shorter == SeqsUpTo(S, n - 1)
       IN  shorter \cup {Append(v, t) : v \in shorter, t \in S}

MaxArgc == 2       \* arguments of a drawn vector

\* Spellings and tokens.
Long_ap_eq == <<"-", "-", "a", "p", "=">>         \* "--ap="
a_ap == <<"-", "a", ",", "-", "-", "a", "p">>     \* "-a,--ap"
n_nu == <<"-", "n", ",", "-", "-", "n", "u">>     \* "-n,--nu"
File == <<"f", "i", "l", "e", ".", "t", "x", "t">>

\* Spec: a boolean and an integer flag; flags, values and free arguments,
\* and the vector of the end-to-end example.
FlagCalls ==
  {FlagCall("BOOL", <<"-", "a">>, d) : d \in BOOLEAN}
  \cup {FlagCall("INT", <<"-", "n">>, 0)}

Tokens == {<<"-", "a">>, <<"-", "n">>, <<"5">>, File}

ArgVectors ==
  SeqsUpTo(Tokens, MaxArgc) \cup {<<<<"-", "a">>, <<"-", "n">>, <<"5">>, File>>}

Next == NextOn(FlagCalls, ArgVectors, MaxReads)
Spec == Init /\ [][Next]_vars

\* SpecBool: one boolean family with either default; "0", "1", a quoted
\* "0" and a free argument after the flag.
BoolCalls == {FlagCall("BOOL", a_ap, d) : d \in BOOLEAN}
BoolTokens == {<<"-", "a">>, <<"0">>, <<"'", "0", "'">>, <<"1">>, <<"x">>}
NextBool == NextOn(BoolCalls, SeqsUpTo(BoolTokens, MaxArgc), OnePass)
SpecBool == Init /\ [][NextBool]_vars

\* SpecCluster: two single-character boolean flags with either default, and
\* their combinations.
ClusterCalls ==
  {FlagCall("BOOL", <<"-", c>>, d) : c \in {"a", "b"}, d \in BOOLEAN}
ClusterTokens == {<<"-", "a", "b">>, <<"-", "b", "a", "b">>, <<"x">>}
NextCluster == NextOn(ClusterCalls, SeqsUpTo(ClusterTokens, MaxArgc), OnePass)
SpecCluster == Init /\ [][NextCluster]_vars

\* SpecRegistry: an alias registered twice, and spellings with two markers.
RegistryCalls ==
  {FlagCall("BOOL", <<"-", "a">>, FALSE), FlagCall("INT", <<"-", "a">>, 0),
   FlagCall("BOOL", <<"/", "q">>, FALSE)}
RegistryTokens == {<<"-", "a">>, <<"5">>, <<"/", "x">>, <<"-", "x">>}
NextRegistry == NextOn(RegistryCalls, SeqsUpTo(RegistryTokens, MaxArgc), OnePass)
SpecRegistry == Init /\ [][NextRegistry]_vars

\* SpecValue: an integer, a floating and a string flag, in short and long
\* form, with and without a value.
ValueCalls ==
  {FlagCall("INT", n_nu, 0), FlagCall("FLOAT", <<"-", "f">>, 0),
   FlagCall("STR", <<"-", "s">>, <<"x">>)}
ValueTokens ==
  {<<"-", "n">>, <<"-", "-", "n", "u">>, <<"-", "f">>, <<"-", "s">>, <<"5">>}
NextValue == NextOn(ValueCalls, SeqsUpTo(ValueTokens, MaxArgc), OnePass)
SpecValue == Init /\ [][NextValue]_vars

\* SpecEquals: one boolean family with either default, and its tokens with
\* and without '=': the suffixes "0", a quoted "0", empty and another text.
Ap0 == Long_ap_eq \o <<"0">>
EqualsTokens ==
  {<<"-", "-", "a", "p">>, Ap0, Long_ap_eq \o <<"'", "0", "'">>, Long_ap_eq,
   <<"-", "a", "=", "0">>, <<"-", "a", "=", "x">>}
NextEquals == NextOn(BoolCalls, SeqsUpTo(EqualsTokens, MaxArgc), OnePass)
SpecEquals == Init /\ [][NextEquals]_vars
\* SpecReparse: two single-character boolean flags, a combination of one of
\* them and a free argument, parsed more than once.
ReparseCalls == {FlagCall("BOOL", <<"-", c>>, FALSE) : c \in {"a", "b"}}
ReparseTokens == {<<"-", "b", "b">>, <<"x">>}
NextReparse == NextOn(ReparseCalls, SeqsUpTo(ReparseTokens, MaxArgc), MaxReads)
SpecReparse == Init /\ [][NextReparse]_vars
\* SpecLoop: a spelling that contains '=' beside a plain one.
LoopCalls == {FlagCall("BOOL", <<"-", "=">>, FALSE), FlagCall("BOOL", <<"-", "a">>, FALSE)}
LoopTokens == {<<"-", "=">>, <<"-", "a">>, <<"-", "a", "=">>}
NextLoop == NextOn(LoopCalls, SeqsUpTo(LoopTokens, MaxArgc), OnePass)
SpecLoop == Init /\ [][NextLoop]_vars
\* SpecMarker: two single-character boolean flags spelled with '/', and
\* their combinations.
MarkerCalls == {FlagCall("BOOL", <<"/", c>>, FALSE) : c \in {"a", "b"}}
MarkerTokens == {<<"/", "a", "b">>, <<"/", "b", "a", "b">>, <<"/", "a">>, <<"x">>}
NextMarker == NextOn(MarkerCalls, SeqsUpTo(MarkerTokens, MaxArgc), OnePass)
SpecMarker == Init /\ [][NextMarker]_vars
\* SpecConvert: an integer and a floating flag, and value texts that are
\* and are not numbers, after '=' and as the next token.
ConvertCalls == {FlagCall("INT", n_nu, 0), FlagCall("FLOAT", <<"-", "f">>, 0)}
ConvertTokens ==
  {<<"-", "n">>, <<"-", "-", "n", "u", "=", "x">>, <<"-", "-", "n", "u", "=", "5">>,
   <<"-", "f", "=">>, <<"5">>}
NextConvert == NextOn(ConvertCalls, SeqsUpTo(ConvertTokens, MaxArgc), OnePass)
SpecConvert == Init /\ [][NextConvert]_vars

(***************************************************************************)
(* Notions the properties share.                                           *)
(***************************************************************************)
\* The token at index k of the vector the parser works on (k in the array,
\* the character array alive).
Readable(k) == ValidPtr(Self, PtrAt(Self, k))
TokenAt(k) == strings[_argv.elems[k + 1]]

\* The running readArgs is about to examine, at index i, a token whose
\* flag-only part is registered with the given type.
AtFlag(beh, types) ==
  /\ pc = "loop" /\ behaviour = beh /\ i < _argc /\ Readable(i)
  /\ FlagOnly(TokenAt(i)) \in DOMAIN main_lookup
  /\ main_lookup[FlagOnly(TokenAt(i))] \in types

\* The token after the one examined exists and is, without quotes, in S.
NextTokenIn(S) == i + 1 < _argc /\ Readable(i + 1) /\ stripQuotes(TokenAt(i + 1)) \in S

\* 0-based index of the first token parsed.
StartIndex == IF _from_sys THEN 1 ELSE 0

\* The first readArgs call on this parser has returned its result.
FirstPassReturned == pc = "idle" /\ nreads = 1 /\ ret.kind = "returned"

\* The elements of a sequence.
Range(q) == {q[k] : k \in 1..Len(q)}

(***************************************************************************)
(* C1: in STRICT, a short-form boolean flag followed by a token that is    *)
(* "0" without its quotes stores false in the flag's cell whatever the     *)
(* cell held, and advances by two tokens: the "0" goes neither to options  *)
(* nor to the unrecognized flags.                                          *)
(***************************************************************************)
C1_ZeroStoresFalse ==
  [][(AtFlag("STRICT", {"BOOL"}) /\ ~StartsWithDashDash(TokenAt(i))
        /\ NextTokenIn({<<"0">>}))
     => /\ bool_cells'[bool_lookup[FlagOnly(TokenAt(i))]] = FALSE
        /\ i' = i + 2
        /\ options' = options
        /\ invalid_flags' = invalid_flags]_vars

(***************************************************************************)
(* C2: in STRICT, a short-form boolean flag with no following token, or    *)
(* with one that is neither "0" nor "1" without its quotes, stores true    *)
(* and advances by exactly one token, whatever the cell held.  (Stated for *)
(* vectors of two tokens or more.)                                         *)
(***************************************************************************)
C2_NoValueStoresTrue ==
  [][(AtFlag("STRICT", {"BOOL"}) /\ ~StartsWithDashDash(TokenAt(i))
        /\ ~NextTokenIn({<<"0">>, <<"1">>})
        /\ Len(caller_tokens) >= 2
        /\ (i + 1 < _argc => Readable(i + 1)))
     => /\ bool_cells'[bool_lookup[FlagOnly(TokenAt(i))]] = TRUE
        /\ i' = i + 1]_vars

(***************************************************************************)
(* C3: in AS_IS, for a boolean family with the aliases -a and --ap, the    *)
(* inputs "-a 0", "-a=0", "--ap 0" and "--ap=0" at the same place of       *)
(* otherwise equal vectors give the same boolean cells, options and        *)
(* unrecognized flags.                                                     *)
(***************************************************************************)
Short_a == <<"-", "a">>
Long_ap == <<"-", "-", "a", "p">>

\* v with the two tokens at k and k + 1 (1-based) replaced by the tokens r.
Replace2(v, k, r) == SubSeq(v, 1, k - 1) \o r \o SubSeq(v, k + 2, Len(v))

\* What readArgs(beh) gives on this parser had initialize been given v.
ResultsOn(v, beh) ==
  LET P0 == [Self EXCEPT !._argc = Len(v),
                         !._argv = [base |-> 1, elems |-> [k \in 1..Len(v) |-> k]],
                         !.strings = v]
  IN  {[pc |-> Q.pc, bool_cells |-> Q.bool_cells, options |-> Q.options, ret |-> Q.ret] :
         Q \in RunToEnd(Enter(P0, _from_sys), beh, MaxSteps)}

C3_FourFormsAgree ==
  \A k \in 1..(Len(strings) - 1) :
    (/\ pc = "idle" /\ nreads = 0 /\ _argv # NullArgv /\ k > StartIndex
     /\ strings[k] = Short_a /\ strings[k + 1] = <<"0">>
     /\ {Short_a, Long_ap} \subseteq DOMAIN bool_lookup
     /\ main_lookup[Short_a] = "BOOL" /\ main_lookup[Long_ap] = "BOOL"
     /\ bool_lookup[Short_a] = bool_lookup[Long_ap])
    => LET r == ResultsOn(strings, "AS_IS")
       IN  /\ r = ResultsOn(Replace2(strings, k, <<Short_a \o <<"=", "0">>>>), "AS_IS")
           /\ r = ResultsOn(Replace2(strings, k, <<Long_ap, <<"0">>>>), "AS_IS")
           /\ r = ResultsOn(Replace2(strings, k, <<Long_ap \o <<"=", "0">>>>), "AS_IS")

(***************************************************************************)
(* C4: when the only argument is a token made of '-' and two or more       *)
(* characters that are each registered as a single-character boolean flag, *)
(* after the parse (either dialect) each of those cells is true and no     *)
(* flag is unrecognized, whatever the defaults.                            *)
(***************************************************************************)
IsBoolCluster(tok) ==
  /\ Len(tok) >= 3 /\ tok[1] = "-"
  /\ \A j \in 2..Len(tok) :
       /\ <<"-", tok[j]>> \in DOMAIN main_lookup
       /\ main_lookup[<<"-", tok[j]>>] = "BOOL"

C4_ClusterSetsAll ==
  (/\ FirstPassReturned
   /\ Len(caller_tokens) = StartIndex + 1
   /\ IsBoolCluster(caller_tokens[StartIndex + 1]))
  => LET tok == caller_tokens[StartIndex + 1]
     IN  /\ \A j \in 2..Len(tok) : bool_cells[bool_lookup[<<"-", tok[j]>>]] = TRUE
         /\ ret.value = <<>>

(***************************************************************************)
(* C5: after readArgs returns, every token of the vector the caller gave   *)
(* to initialize has the content it had before the call.                   *)
(***************************************************************************)
C5_CallerVectorKept ==
  (pc = "idle" /\ ret.kind = "returned")
  => \A k \in 1..Len(caller_tokens) : strings[k] = caller_tokens[k]


(***************************************************************************)
(* C6 (as claimed): an alias that is registered again resolves, in the     *)
(* main lookup and in the lookup of its type, to the type tag and the cell *)
(* of the later registration.                                              *)
(***************************************************************************)
\* The flag...() calls (indices into handles) that named the alias.
CallsOf(alias) == {k \in 1..Len(handles) : alias \in Range(handles[k].flags)}
FirstCallOf(alias) == CHOOSE k \in CallsOf(alias) : \A o \in CallsOf(alias) : k <= o
LastCallOf(alias) == CHOOSE k \in CallsOf(alias) : \A o \in CallsOf(alias) : k >= o

TypeLookup(type) ==
  CASE type = "BOOL" -> bool_lookup [] type = "FLOAT" -> float_lookup
    [] type = "INT" -> int_lookup [] type = "STR" -> str_lookup

\* The value in the cell a flag...() call returned.
CellValue(h) ==
  CASE h.type = "BOOL" -> bool_cells[h.cell] [] h.type = "FLOAT" -> float_cells[h.cell]
    [] h.type = "INT" -> int_cells[h.cell] [] h.type = "STR" -> str_cells[h.cell]

\* The alias leads a parse to the type and the cell of the call h.
ResolvesTo(alias, h) ==
  /\ main_lookup[alias] = h.type
  /\ alias \in DOMAIN TypeLookup(h.type)
  /\ TypeLookup(h.type)[alias] = h.cell

C6_LaterRegistrationWins ==
  \A alias \in DOMAIN main_lookup : ResolvesTo(alias, handles[LastCallOf(alias)])

(***************************************************************************)
(* C6 (amended): an alias that is registered again keeps the lookup entry  *)
(* of its first registration: every parse resolves it to the type tag and  *)
(* the cell of the first registration, and an iteration on a token with    *)
(* that alias leaves the cell of every other registration as it was.       *)
(***************************************************************************)
FirstRegistrationResolves ==
  \A alias \in DOMAIN main_lookup : ResolvesTo(alias, handles[FirstCallOf(alias)])

C6_FirstRegistrationWins ==
  [][/\ FirstRegistrationResolves
     /\ FirstRegistrationResolves'
     /\ (\E beh \in {"STRICT", "AS_IS"} : AtFlag(beh, {"BOOL", "FLOAT", "INT", "STR"}))
        => \A k \in 1..Len(handles) :
             k # FirstCallOf(FlagOnly(TokenAt(i))) => CellValue(handles[k])' = CellValue(handles[k])
    ]_vars

\* An alias was registered twice with two types, and the parse of a vector
\* that names it has changed the cell of the first registration.
C6_Witness ==
  /\ FirstPassReturned
  /\ \E alias \in DOMAIN main_lookup :
       /\ alias \in Range(caller_tokens)
       /\ LastCallOf(alias) # FirstCallOf(alias)
       /\ handles[LastCallOf(alias)].type # handles[FirstCallOf(alias)].type
       /\ CellValue(handles[FirstCallOf(alias)]) # handles[FirstCallOf(alias)].default_value
       /\ CellValue(handles[LastCallOf(alias)]) = handles[LastCallOf(alias)].default_value

(***************************************************************************)
(* C7 (as claimed): a token whose flag-only part is not registered, whose  *)
(* first character is the first character of any registered spelling and   *)
(* whose first two characters are not a registered spelling is appended    *)
(* whole to the unrecognized flags and not to options.                     *)
(***************************************************************************)
\* The token examined is unregistered, and so are its first two characters.
UnknownAt ==
  /\ pc = "loop" /\ i < _argc /\ Readable(i)
  /\ FlagOnly(TokenAt(i)) \notin DOMAIN main_lookup
  /\ Prefix2(TokenAt(i)) \notin DOMAIN main_lookup

\* The step reports the token examined as unrecognized and goes on.
ReportsUnrecognized ==
  /\ invalid_flags' = Append(invalid_flags, TokenAt(i))
  /\ options' = options
  /\ i' = i + 1
  /\ pc' = "loop"

C7_AnySpellingMarks ==
  [][(UnknownAt /\ \E key \in DOMAIN main_lookup : CharAt(key, 0) = CharAt(TokenAt(i), 0))
     => ReportsUnrecognized]_vars

(***************************************************************************)
(* C7 (amended): such a token is appended whole to the unrecognized flags  *)
(* and not to options when its first character is the first character of   *)
(* the least registered spelling (the first key of the lookup table, in    *)
(* the order of std::string).                                              *)
(***************************************************************************)
\* No registered spelling is less than this one.
IsLeastSpelling(key) ==
  key \in DOMAIN main_lookup /\ \A o \in DOMAIN main_lookup : ~StrLess(o, key)

C7_LeastSpellingMarks ==
  [][(UnknownAt /\ \E key \in DOMAIN main_lookup :
                     IsLeastSpelling(key) /\ CharAt(key, 0) = CharAt(TokenAt(i), 0))
     => ReportsUnrecognized]_vars

\* With spellings of two markers registered, an unregistered token was
\* reported as unrecognized by the iteration before.
C7_Witness ==
  /\ pc = "loop" /\ i >= 1 /\ Readable(i - 1)
  /\ invalid_flags # <<>> /\ invalid_flags[Len(invalid_flags)] = TokenAt(i - 1)
  /\ FlagOnly(TokenAt(i - 1)) \notin DOMAIN main_lookup
  /\ \E k1, k2 \in DOMAIN main_lookup : CharAt(k1, 0) # CharAt(k2, 0)

(***************************************************************************)
(* C8: for an Integer, Float or String flag, a STRICT long-form token      *)
(* without '=', or a token that is the last of the vector (STRICT          *)
(* short-form; AS_IS without '='), is appended whole to the unrecognized   *)
(* flags, every cell keeps its value, the index advances by one and the    *)
(* parse goes on.                                                          *)
(***************************************************************************)
ValueTypes == {"FLOAT", "INT", "STR"}

MissingValueAt ==
  \/ /\ AtFlag("STRICT", ValueTypes)
     /\ \/ StartsWithDashDash(TokenAt(i)) /\ Find(TokenAt(i), "=") = npos
        \/ ~StartsWithDashDash(TokenAt(i)) /\ i + 1 >= _argc
  \/ /\ AtFlag("AS_IS", ValueTypes)
     /\ Find(TokenAt(i), "=") = npos /\ i + 1 >= _argc

C8_MissingValueRecovered ==
  [][MissingValueAt => (ReportsUnrecognized /\ Cells' = Cells)]_vars

\* The iteration before reported a registered Integer, Float or String
\* flag as unrecognized, and a token is left to parse.
C8_Witness ==
  /\ pc = "loop" /\ i >= 1 /\ i < _argc /\ Readable(i - 1)
  /\ invalid_flags # <<>> /\ invalid_flags[Len(invalid_flags)] = TokenAt(i - 1)
  /\ FlagOnly(TokenAt(i - 1)) \in DOMAIN main_lookup
  /\ main_lookup[FlagOnly(TokenAt(i - 1))] \in ValueTypes
  /\ Cells = start_cells

(***************************************************************************)
(* C9: the tokens a parse pass appends to options are exactly the tokens   *)
(* from the start index that are neither a recognized flag, nor consumed   *)
(* as a flag's value, nor flag-like.  Hence a token that is not flag-like, *)
(* and that no flag before it can take as its value (it is the first       *)
(* token parsed, or follows a token that is not flag-like either, or       *)
(* follows a boolean flag and is neither "0" nor "1"), is among the        *)
(* options of the pass.                                                    *)
(***************************************************************************)
\* Not registered, and starting with the first character of no spelling.
Plain(tok) ==
  /\ FlagOnly(tok) \notin DOMAIN main_lookup
  /\ \A key \in DOMAIN main_lookup : CharAt(key, 0) # CharAt(tok, 0)

IsBoolFlag(tok) ==
  FlagOnly(tok) \in DOMAIN main_lookup /\ main_lookup[FlagOnly(tok)] = "BOOL"

\* The options the last pass appended.
PassOptions == SubSeq(options, Len(start_options) + 1, Len(options))

C9_FreeTokensAreOptions ==
  (FirstPassReturned /\ DOMAIN main_lookup # {})
  => \A k \in (StartIndex + 1)..Len(caller_tokens) :
       (/\ Plain(caller_tokens[k])
        /\ \/ k = StartIndex + 1
           \/ Plain(caller_tokens[k - 1])
           \/ /\ IsBoolFlag(caller_tokens[k - 1])
              /\ stripQuotes(caller_tokens[k]) \notin {<<"0">>, <<"1">>})
       => caller_tokens[k] \in Range(PassOptions)

\* The end-to-end example of C9: flags -a (bool, default false) and -n (int,
\* default 0), ["prog","-a","-n","5","file.txt"] in STRICT give true, 5,
\* options ["file.txt"] and no unrecognized flag.
C9_Example ==
  (/\ FirstPassReturned /\ behaviour = "STRICT" /\ _from_sys
   /\ caller_tokens = <<Prog, <<"-", "a">>, <<"-", "n">>, <<"5">>, File>>
   /\ Len(bool_cells) = 1 /\ Len(int_cells) = 1 /\ start_cells[1] = <<FALSE>>)
  => /\ bool_cells = <<TRUE>> /\ int_cells = <<5>>
     /\ options = <<File>> /\ ret.value = <<>>

(***************************************************************************)
(* C10: options is append-only: every step leaves the options it had as a  *)
(* prefix of the options it has (so the options of several readArgs calls  *)
(* accumulate); getOptions changes nothing of the parser, and two          *)
(* getOptions calls with no readArgs between them return the same.         *)
(***************************************************************************)
IsPrefix(p, q) == Len(p) <= Len(q) /\ SubSeq(q, 1, Len(p)) = p

\* Everything but what the caller remembers of getOptions.
ParserState ==
  <<_argc, _argv, _from_sys, allocs, options, Registry, Cells, strings, pc>>

EqualsRuleAt ==
  \/ AtFlag("STRICT", {"BOOL"}) /\ StartsWithDashDash(TokenAt(i))
  \/ AtFlag("AS_IS", {"BOOL"}) /\ Find(TokenAt(i), "=") # npos

\* The text after the first '=' of a token that has one.
AfterEquals(tok) == SubSeq(tok, Find(tok, "=") + 2, Len(tok))

\* What the '=' rule stores for a token.
EqualsRuleValue(tok) ==
  IF Find(tok, "=") = npos THEN TRUE
  ELSE IF AfterEquals(tok) \in {<<"0">>, <<"'", "0", "'">>, <<"\"", "0", "\"">>} THEN FALSE
  ELSE TRUE

C11_EqualsRule ==
  [][EqualsRuleAt
     => /\ bool_cells'[bool_lookup[FlagOnly(TokenAt(i))]] = EqualsRuleValue(TokenAt(i))
        /\ i' = i + 1
        /\ options' = options
        /\ invalid_flags' = invalid_flags
        /\ pc' = "loop"]_vars

\* A flag that held true was parsed from a token with a quoted "0" after
\* its '=' and holds false.
C11_Witness ==
  /\ FirstPassReturned /\ Len(caller_tokens) = StartIndex + 1 /\ Len(bool_cells) = 1
  /\ caller_tokens[StartIndex + 1] = Long_ap_eq \o <<"'", "0", "'">>
  /\ start_cells[1] = <<TRUE>> /\ bool_cells = <<FALSE>>

(***************************************************************************)
(* C12: when the flag...() calls made so far named pairwise distinct       *)
(* aliases, every alias of a call (the last of its list included) resolves *)
(* in main_lookup to the type of that call and in the lookup of that type  *)
(* to the cell the call returned; the cells of two calls differ, and until *)
(* the first parse each cell holds the default given to its call.          *)
(***************************************************************************)
\* No alias was named by two flag...() calls.
DistinctAliases ==
  \A j, k \in 1..Len(handles) :
    j # k => Range(handles[j].flags) \cap Range(handles[k].flags) = {}

C12_AliasesShareCell ==
  DistinctAliases
  => \A k \in 1..Len(handles) :
       /\ \A alias \in Range(handles[k].flags) :
            alias \in DOMAIN main_lookup /\ ResolvesTo(alias, handles[k])
       /\ \A j \in 1..Len(handles) :
            (j # k /\ handles[j].type = handles[k].type) => handles[j].cell # handles[k].cell
       /\ nreads = 0 => CellValue(handles[k]) = handles[k].default_value

\* Two calls of different types were made, one of them with two aliases,
\* and no alias was named twice.
C12_Witness ==
  /\ Len(handles) = 2 /\ DistinctAliases /\ nreads = 0
  /\ handles[1].type # handles[2].type
  /\ \E k \in 1..2 : Len(handles[k].flags) = 2 /\ handles[k].flags[1] # handles[k].flags[2]

(***************************************************************************)
(* C13: when readArgs returns, every cell of a flag that the caller's      *)
(* vector does not mention holds the value it held when readArgs was       *)
(* called.  A vector mentions a flag when the flag-only part of one of its *)
(* parsed tokens is an alias of the flag, or when a character of one of    *)
(* its combination tokens is the character of a two-character alias.       *)
(***************************************************************************)
\* The tokens of the caller's vector from the start index.
ParsedTokens == {caller_tokens[k] : k \in (StartIndex + 1)..Len(caller_tokens)}

\* A token the parse expands: unregistered, its first two characters registered.
IsCombination(tok) ==
  FlagOnly(tok) \notin DOMAIN main_lookup /\ Prefix2(tok) \in DOMAIN main_lookup

Mentions(tok, alias) ==
  \/ FlagOnly(tok) = alias
  \/ /\ IsCombination(tok) /\ Len(alias) = 2
     /\ \E j \in 2..Len(tok) : tok[j] = alias[2]

Mentioned(h) == \E tok \in ParsedTokens, alias \in Range(h.flags) : Mentions(tok, alias)

\* The value the cell of a flag...() call held when readArgs was called.
StartValue(h) ==
  CASE h.type = "BOOL" -> start_cells[1][h.cell] [] h.type = "FLOAT" -> start_cells[2][h.cell]
    [] h.type = "INT" -> start_cells[3][h.cell] [] h.type = "STR" -> start_cells[4][h.cell]

C13_UnmentionedCellsKept ==
  (pc = "idle" /\ nreads >= 1 /\ ret.kind = "returned")
  => \A k \in 1..Len(handles) :
       ~Mentioned(handles[k]) => CellValue(handles[k]) = StartValue(handles[k])

\* The same, for the first readArgs call on a parser only.
C13_FirstPassKept == nreads = 1 => C13_UnmentionedCellsKept

(***************************************************************************)
(* C14: every iteration of the loop of readArgs either leaves the loop,    *)
(* or advances the index by one or two, or expands a combination token     *)
(* without advancing, and then the token at the position it rewrote is not *)
(* one the next iteration expands again (so that the loop reaches the end  *)
(* of the vector), also for registries with spellings that contain '='.    *)
(***************************************************************************)
\* The iteration on the token examined is the combination-flag branch.
ExpandableAt ==
  /\ pc = "loop" /\ i < _argc /\ Readable(i)
  /\ IsCombination(TokenAt(i))
  /\ \E key \in DOMAIN main_lookup :
       IsLeastSpelling(key) /\ CharAt(key, 0) = CharAt(TokenAt(i), 0)

C14_EveryStepProgresses ==
  [][(pc = "loop" /\ i < _argc /\ DOMAIN main_lookup # {})
     => \/ pc' # "loop"
        \/ i' \in {i + 1, i + 2}
        \/ i' = i /\ ~ExpandableAt']_vars

(***************************************************************************)
(* C15: the iteration on a combination token at position i gives a vector  *)
(* that has the token's own first character followed by its last character *)
(* at position i, one token (that first character and the interior         *)
(* character) appended at the end for every interior character in order,   *)
(* every other position as it was, its length grown by the number of       *)
(* interior characters; i is unchanged.                                    *)
(***************************************************************************)
\* The vector the parser works on, as the sequence of its tokens.
Vector == [k \in 1..Len(_argv.elems) |-> strings[_argv.elems[k]]]

\* What the expansion of the token at (0-based) position k makes of v.
Expanded(v, k) ==
  LET tok == v[k + 1]
  IN  [v EXCEPT ![k + 1] = <<tok[1], tok[Len(tok)]>>]
        \o [j \in 1..(Len(tok) - 2) |-> <<tok[1], tok[j + 1]>>]

C15_ExpansionStep ==
  [][(ExpandableAt /\ _argc = Len(_argv.elems) /\ \A k \in 0..(_argc - 1) : Readable(k))
     => /\ Vector' = Expanded(Vector, i)
        /\ _argc' = _argc + Len(TokenAt(i)) - 2
        /\ i' = i]_vars

(***************************************************************************)
(* C16: when readArgs has returned, every pointer array and every token    *)
(* the parser allocated is released, and allocs is empty, however many     *)
(* combination tokens the vector held.                                     *)
(***************************************************************************)
C16_BuffersReleased ==
  (pc = "idle" /\ ret.kind = "returned")
  => /\ allocs = <<>>
     /\ \A k \in 1..Len(arrays) : arrays[k] = "freed"
     /\ \A k \in (Len(caller_tokens) + 1)..Len(strings) : strings[k] = FREED

\* The same, for a pass that expanded at most one combination token.
C16_OneExpansionReleased == Len(arrays) <= 1 => C16_BuffersReleased

(***************************************************************************)
(* C17: when the value text of an Integer or Float flag (the text after    *)
(* '=' or the next token, without its quotes) is not a number, readArgs    *)
(* ends by throwing: nothing is returned, the token is not appended to the *)
(* unrecognized flags, and every cell keeps the value it had before the    *)
(* token (so the cells earlier tokens stored keep what was stored).        *)
(***************************************************************************)
\* The token examined is an Integer or Float flag that takes its value
\* from the text after its '='.
ValueAfterEquals ==
  /\ \/ AtFlag("STRICT", {"FLOAT", "INT"}) /\ StartsWithDashDash(TokenAt(i))
     \/ AtFlag("AS_IS", {"FLOAT", "INT"})
  /\ Find(TokenAt(i), "=") # npos

\* The token examined is an Integer or Float flag that takes its value
\* from the next token.
ValueFromNext ==
  /\ \/ AtFlag("STRICT", {"FLOAT", "INT"}) /\ ~StartsWithDashDash(TokenAt(i))
     \/ AtFlag("AS_IS", {"FLOAT", "INT"}) /\ Find(TokenAt(i), "=") = npos
  /\ i + 1 < _argc /\ Readable(i + 1)

\* The text is not a number: std::stoi and std::stod throw on it.
NotANumber(text) == ~Convert(stripQuotes(text)).ok

C17_ConversionFailureThrows ==
  [][(\/ ValueAfterEquals /\ NotANumber(AfterEquals(TokenAt(i)))
      \/ ValueFromNext /\ NotANumber(TokenAt(i + 1)))
     => /\ ret'.kind = "threw" /\ pc' = "idle"
        /\ invalid_flags' = invalid_flags
        /\ options' = options
        /\ Cells' = Cells]_vars

\* readArgs threw after an earlier token of the pass had stored a value.
C17_Witness ==
  /\ pc = "idle" /\ nreads = 1 /\ ret.kind = "threw"
  /\ Cells # start_cells

(***************************************************************************)
(* C18: for a vector that comes from the system, the token at position 0   *)
(* takes no part in the parse: in either dialect, the vector and the       *)
(* vector with another token at position 0 give the same boolean cells,    *)
(* the same options and the same returned unrecognized flags.              *)
(***************************************************************************)
\* Texts an executable path can be replaced with.
OtherToken0 == {<<"0">>, <<"1">>, <<"x">>}

C18_Token0Ignored ==
  (pc = "idle" /\ nreads = 0 /\ _argv # NullArgv /\ _from_sys /\ Len(strings) >= 1)
  => \A beh \in {"STRICT", "AS_IS"}, t0 \in OtherToken0 :
       ResultsOn([strings EXCEPT ![1] = t0], beh) = ResultsOn(strings, beh)

\* The same, for the STRICT dialect only.
C18_Token0IgnoredSTRICT ==
  (pc = "idle" /\ nreads = 0 /\ _argv # NullArgv /\ _from_sys /\ Len(strings) >= 1)
  => \A t0 \in OtherToken0 :
       ResultsOn([strings EXCEPT ![1] = t0], "STRICT") = ResultsOn(strings, "STRICT")

(***************************************************************************)
(* C19: when readArgs has returned, _argv is the caller's array again and  *)
(* _argc is the count given to initialize, whether or not a combination    *)
(* token was expanded; and no iteration of a readArgs call examines a      *)
(* position beyond the caller's array unless the call itself expanded a    *)
(* token.                                                                  *)
(***************************************************************************)
\* The array and the count initialize was given.
CallerArgv == [base |-> 1, elems |-> [k \in 1..Len(caller_tokens) |-> k]]

C19_ViewRestored ==
  /\ (pc = "idle" /\ ret.kind = "returned")
     => (_argv = CallerArgv /\ _argc = Len(caller_tokens))
  /\ (pc = "loop" /\ _argv = CallerArgv) => _argc = Len(caller_tokens)

\* The array alone: _argv is the caller's array when readArgs has returned.
C19_ArrayRestored == (pc = "idle" /\ ret.kind = "returned") => _argv = CallerArgv

(***************************************************************************)
(* C20: every read of the vector during a parse is at an index below the   *)
(* tracked length: an iteration on a vector whose _argc positions all      *)
(* exist reads no position outside it, so it never faults; in particular   *)
(* a flag that is the last token is handled without a read past the end.   *)
(***************************************************************************)
\* The tracked length is the length of the array and every token exists.
VectorIntact ==
  /\ _argc = Len(_argv.elems)
  /\ \A k \in 0..(_argc - 1) : Readable(k)

C20_ReadsInBounds ==
  [][(pc = "loop" /\ i < _argc /\ VectorIntact /\ DOMAIN main_lookup # {})
     => pc' # "ub"]_vars

(***************************************************************************)
(* C21: with no flag registered, every iteration of readArgs (either       *)
(* dialect) on a vector whose positions all exist appends the token        *)
(* examined to options, leaves the unrecognized flags empty and advances   *)
(* by one: no token looks like a flag and the parse does not fault.        *)
(***************************************************************************)
C21_EmptyRegistryAllOptions ==
  [][(pc = "loop" /\ i < _argc /\ VectorIntact /\ DOMAIN main_lookup = {})
     => /\ pc' = "loop"
        /\ options' = Append(options, TokenAt(i))
        /\ invalid_flags' = <<>>
        /\ i' = i + 1]_vars

====
